---- MODULE Spec2Model ----
(***************************************************************************)
(* Model of dashboard/views.py: the view function index(request).         *)
(*                                                                         *)
(*   7  def index(request):                                                *)
(*   8      response = requests.get(settings.API_URL)                      *)
(*   9      posts = response.json()                                        *)
(*  10      total_responses = len(posts)                                   *)
(*  11      data = { 'title': "Landing Page' Dashboard",                   *)
(*                   'total_responses': total_responses, }                 *)
(*  12      return render(request, "dashboard/index.html", data)           *)
(*                                                                         *)
(* Each line of the function is one action on the frame of the invocation  *)
(* that executes it.  The upstream endpoint, the process-wide setting      *)
(* API_URL and the template renderer are the environment.  An upstream     *)
(* body is a sequence of one-character strings, and response.json() is     *)
(* modelled by the scanner of Python's json module on that text.           *)
(***************************************************************************)
EXTENDS Integers, Sequences, FiniteSets, TLC

\* ------------------------------------------------------------------ bounds
\* Number of invocations that may be in flight at once (SpecConc).
NumWorkers == 2
\* Number of invocations started in one behaviour.
MaxCalls == 3
\* Longest flat array body [1,1,...] the upstream returns.
MaxLen == 2

\* ------------------------------------------------------- Python values
\* An unbound local (or an absent result) is the empty sequence, a bound one
\* the one-element sequence holding its value.
Unbound == <<>>

Bound(v) == <<v>>

\* Decoded JSON values, as Python objects.  items: the elements of a list or
\* the values of a dict; keys: the keys of a dict; chars: the characters of a
\* str, or the literal of an int / float.
PyValue(kind, items, keys, chars) ==
    [kind |-> kind, items |-> items, keys |-> keys, chars |-> chars]

PyList(items) == PyValue("list", items, <<>>, <<>>)

PyDict(keys, items) == PyValue("dict", items, keys, <<>>)

PyStr(chars) == PyValue("str", <<>>, <<>>, chars)

PyInt(chars) == PyValue("int", <<>>, <<>>, chars)

PyFloat(chars) == PyValue("float", <<>>, <<>>, chars)

PyBool(chars) == PyValue("bool", <<>>, <<>>, chars)

PyNone == PyValue("NoneType", <<>>, <<>>, <<>>)

\* ------------------------------------------------- response.json() (line 9)
\* The result of a scan: ok, the value and the index after it.
ScanFail == [ok |-> FALSE, val |-> PyNone, pos |-> 0]

ScanOk(v, p) == [ok |-> TRUE, val |-> v, pos |-> p]

\* The character at index i, "EOF" past the end.
Ch(s, i) == IF i >= 1 /\ i <= Len(s) THEN s[i] ELSE "EOF"

Digits == {"0", "1", "2", "3", "4", "5", "6", "7", "8", "9"}

Whitespace == {" "}

\* Whether the literal lit stands at index i of s.
StartsWith(s, i, lit) ==
    /\ i + Len(lit) - 1 <= Len(s)
    /\ SubSeq(s, i, i + Len(lit) - 1) = lit

RECURSIVE SkipWs(_, _)
\* The json module's WHITESPACE.match(s, i).end().
SkipWs(s, i) == IF Ch(s, i) \in Whitespace THEN SkipWs(s, i + 1) ELSE i

RECURSIVE SkipDigits(_, _)
\* The end of the run of digits that starts at i.
SkipDigits(s, i) == IF Ch(s, i) \in Digits THEN SkipDigits(s, i + 1) ELSE i

\* json.scanner NUMBER_RE, integer part: -?(0|[1-9][0-9]*).  The index after
\* the match, 0 when there is none.
MatchNumber(s, i) ==
    LET j == IF Ch(s, i) = "-" THEN i + 1 ELSE i
    IN  IF Ch(s, j) = "0" THEN j + 1
        ELSE IF Ch(s, j) \in Digits THEN SkipDigits(s, j)
        ELSE 0

RECURSIVE ScanString(_, _, _)
\* json.decoder.scanstring from the character after the opening quote: the
\* characters up to the closing quote; an unterminated string is an error.
ScanString(s, i, acc) ==
    IF Ch(s, i) = "EOF" THEN ScanFail
    ELSE IF Ch(s, i) = "\"" THEN ScanOk(PyStr(acc), i + 1)
    ELSE ScanString(s, i + 1, Append(acc, s[i]))

\* dict(pairs): a later pair with a key already present replaces its value.
DictSet(keys, items, k, v) ==
    IF \E p \in 1..Len(keys) : keys[p] = k
    THEN LET p == CHOOSE q \in 1..Len(keys) : keys[q] = k
         IN  [keys |-> keys, items |-> [items EXCEPT ![p] = v]]
    ELSE [keys |-> Append(keys, k), items |-> Append(items, v)]

RECURSIVE ScanOnce(_, _, _)
RECURSIVE ArrayLoop(_, _, _, _)
RECURSIVE ObjectLoop(_, _, _, _, _)

\* json.decoder.JSONArray from the character after "[".
JSONArray(s, i, constants) ==
    LET j == SkipWs(s, i)
    IN  IF Ch(s, j) = "]" THEN ScanOk(PyList(<<>>), j + 1)
        ELSE ArrayLoop(s, j, <<>>, constants)

\* The loop of JSONArray: a value, then "]" or "," and the next value.
ArrayLoop(s, i, acc, constants) ==
    LET r == ScanOnce(s, i, constants)
    IN  IF ~r.ok THEN ScanFail
        ELSE LET j == SkipWs(s, r.pos)
                 acc2 == Append(acc, r.val)
             IN  IF Ch(s, j) = "]" THEN ScanOk(PyList(acc2), j + 1)
                 ELSE IF Ch(s, j) # "," THEN ScanFail
                 ELSE ArrayLoop(s, SkipWs(s, j + 1), acc2, constants)

\* json.decoder.JSONObject from the character after "{".
JSONObject(s, i, constants) ==
    LET j == SkipWs(s, i)
    IN  IF Ch(s, j) = "}" THEN ScanOk(PyDict(<<>>, <<>>), j + 1)
        ELSE ObjectLoop(s, j, <<>>, <<>>, constants)

\* The loop of JSONObject: "key" : value, then "}" or "," and the next pair.
ObjectLoop(s, i, keys, items, constants) ==
    IF Ch(s, i) # "\"" THEN ScanFail
    ELSE LET k == ScanString(s, i + 1, <<>>)
         IN  IF ~k.ok THEN ScanFail
             ELSE LET j == SkipWs(s, k.pos)
                  IN  IF Ch(s, j) # ":" THEN ScanFail
                      ELSE LET v == ScanOnce(s, SkipWs(s, j + 1), constants)
                           IN  IF ~v.ok THEN ScanFail
                               ELSE LET e == SkipWs(s, v.pos)
                                        d == DictSet(keys, items, k.val.chars, v.val)
                                    IN  IF Ch(s, e) = "}"
                                        THEN ScanOk(PyDict(d.keys, d.items), e + 1)
                                        ELSE IF Ch(s, e) # "," THEN ScanFail
                                        ELSE ObjectLoop(s, SkipWs(s, e + 1),
                                                        d.keys, d.items, constants)

\* json.scanner.py_make_scanner._scan_once: one value at index i.  constants
\* says whether the literals NaN, Infinity and -Infinity are accepted: Python's
\* decoder accepts them (parse_constant), RFC 8259 has no such literals.
ScanOnce(s, i, constants) ==
    LET c == Ch(s, i)
        n == MatchNumber(s, i)
    IN  IF c = "\"" THEN ScanString(s, i + 1, <<>>)
        ELSE IF c = "{" THEN JSONObject(s, i + 1, constants)
        ELSE IF c = "[" THEN JSONArray(s, i + 1, constants)
        ELSE IF StartsWith(s, i, <<"n", "u", "l", "l">>) THEN ScanOk(PyNone, i + 4)
        ELSE IF StartsWith(s, i, <<"t", "r", "u", "e">>)
             THEN ScanOk(PyBool(SubSeq(s, i, i + 3)), i + 4)
        ELSE IF StartsWith(s, i, <<"f", "a", "l", "s", "e">>)
             THEN ScanOk(PyBool(SubSeq(s, i, i + 4)), i + 5)
        ELSE IF n # 0 THEN ScanOk(PyInt(SubSeq(s, i, n - 1)), n)
        ELSE IF constants /\ StartsWith(s, i, <<"N", "a", "N">>)
             THEN ScanOk(PyFloat(SubSeq(s, i, i + 2)), i + 3)
        ELSE IF constants /\ StartsWith(s, i, <<"I", "n", "f", "i", "n", "i", "t", "y">>)
             THEN ScanOk(PyFloat(SubSeq(s, i, i + 7)), i + 8)
        ELSE IF constants /\ StartsWith(s, i, <<"-", "I", "n", "f", "i", "n", "i", "t", "y">>)
             THEN ScanOk(PyFloat(SubSeq(s, i, i + 8)), i + 9)
        ELSE ScanFail

\* json.decoder.JSONDecoder.decode: one value between whitespace, and nothing
\* after it ("Extra data" otherwise).
Decode(s, constants) ==
    LET r == ScanOnce(s, SkipWs(s, 1), constants)
    IN  IF r.ok /\ SkipWs(s, r.pos) = Len(s) + 1 THEN r ELSE ScanFail

\* json.loads as response.json() calls it.
Loads(s) == Decode(s, TRUE)


\* RFC 8259 validity of a body: the same grammar without the literals NaN,
\* Infinity and -Infinity.
ValidJson(s) == Decode(s, FALSE).ok

\* ------------------------------------------------------ len(posts) (line 10)
RECURSIVE DeepCount(_)
\* The number of leaves of a value, nested lists flattened.
DeepCount(v) ==
    IF v.kind = "list"
    THEN LET RECURSIVE Sum(_)
             Sum(k) == IF k = 0 THEN 0 ELSE DeepCount(v.items[k]) + Sum(k - 1)
         IN  Sum(Len(v.items))
    ELSE 1

\* A variant of len that counts the elements of nested lists too.
PyLenDeep(v) ==
    IF v.kind \in {"list", "dict", "str"}
    THEN [raised |-> FALSE, n |-> DeepCount(v)]
    ELSE [raised |-> TRUE, n |-> 0]

\* A variant of len that is defined on lists alone.
PyLenListOnly(v) ==
    IF v.kind = "list"
    THEN [raised |-> FALSE, n |-> Len(v.items)]
    ELSE [raised |-> TRUE, n |-> 0]

\* The builtin len: the number of elements of a list, of keys of a dict, of
\* characters of a str; TypeError for int, float, bool and None.
PyLen(v) ==
    IF v.kind = "list" THEN [raised |-> FALSE, n |-> Len(v.items)]
    ELSE IF v.kind = "dict" THEN [raised |-> FALSE, n |-> Len(v.keys)]
    ELSE IF v.kind = "str" THEN [raised |-> FALSE, n |-> Len(v.chars)]
    ELSE [raised |-> TRUE, n |-> 0]

\* ------------------------------------------------------------ environment
\* The values the setting API_URL takes.
Urls == {"http://api.test/posts", "http://api.test/v2/posts"}

InitialUrl == "http://api.test/posts"

Statuses == {200, 404, 500}

\* What the upstream does with one GET: a transport error, or an HTTP
\* response with a status and a body.
TransportError == [err |-> TRUE, status |-> 0, body |-> <<>>]

Response(status, body) == [err |-> FALSE, status |-> status, body |-> body]

RECURSIVE ArrayBody(_)
\* The text [1,1,...,1] with n elements; [] when n = 0.
ArrayBody(n) ==
    IF n = 0 THEN <<"[", "]">>
    ELSE IF n = 1 THEN <<"[", "1", "]">>
    ELSE SubSeq(ArrayBody(n - 1), 1, Len(ArrayBody(n - 1)) - 1) \o <<",", "1", "]">>

ArrayBodies == {ArrayBody(n) : n \in 0..MaxLen}

BodyNested == <<"[", "[", "1", ",", "2", "]", ",", "3", "]">>

BodySpaced == <<" ", "[", "1", " ", ",", " ", "2", "]", " ">>

BodyNaNArray == <<"[", "N", "a", "N", "]">>

BodyNaN == <<"N", "a", "N">>

BodyEmptyObject == <<"{", "}">>

BodyObject == <<"{", "\"", "a", "\"", ":", "1", ",", "\"", "b", "\"", ":", "2", "}">>

BodyDupKeys == <<"{", "\"", "a", "\"", ":", "1", ",", "\"", "a", "\"", ":", "2", "}">>

BodyString == <<"\"", "a", "b", "c", "\"">>

BodyNumber == <<"7">>

BodyTrue == <<"t", "r", "u", "e">>

BodyNull == <<"n", "u", "l", "l">>

BodyPlainText == <<"h", "i">>

BodyEmpty == <<>>

BodyTruncated == <<"[", "1", ",">>

BodyTrailingComma == <<"[", "1", ",", "]">>

BodyExtraData == <<"[", "1", "]", "x">>

Bodies ==
    ArrayBodies \cup
    { BodyNested, BodySpaced, BodyNaNArray, BodyNaN, BodyEmptyObject, BodyObject,
      BodyDupKeys, BodyString, BodyNumber, BodyTrue, BodyNull, BodyPlainText,
      BodyEmpty, BodyTruncated, BodyTrailingComma, BodyExtraData }

\* Every upstream outcome of one GET.
AllResults == {TransportError} \cup {Response(st, b) : st \in Statuses, b \in Bodies}

\* The outcomes used when invocations run concurrently.
ConcResults ==
    {TransportError} \cup
    {Response(200, b) : b \in ArrayBodies \cup {BodyPlainText, BodyNumber}}

Workers == 1..NumWorkers

\* The one worker of a server that handles its requests one after another.
SeqWorkers == {1}

\* ------------------------------------------------------------------ state
VARIABLES
    apiUrl,           \* settings.API_URL
    store,            \* the writes made to any store (database, cache, session)
    calls,            \* the number of invocations started
    last,             \* the outcome of the invocation the last reused worker finished
    pc,               \* per worker: idle, get, json, len, data, render, done, fault
    response,         \* per frame: the local response
    posts,            \* per frame: the local posts
    total_responses,  \* per frame: the local total_responses
    data,             \* per frame: the local data
    upstream,         \* per worker: what the upstream did with this invocation's GET
    getCount,         \* per worker: the calls of requests.get of this invocation
    sentTo,           \* per worker: the URL this invocation's GET was addressed to
    rendered,         \* per worker: the template and context given to render
    httpStatus,       \* per worker: the status of the response to the client
    fault             \* per worker: the exception that ended the invocation

locals == <<response, posts, total_responses, data>>

outputs == <<upstream, getCount, sentTo, rendered, httpStatus, fault>>

vars == <<apiUrl, store, calls, last, pc, locals, outputs>>

PerWorker(v) == [w \in Workers |-> v]

Init ==
    /\ apiUrl = InitialUrl
    /\ store = <<>>
    /\ calls = 0
    /\ last = Unbound
    /\ pc = PerWorker("idle")
    /\ response = PerWorker(Unbound)
    /\ posts = PerWorker(Unbound)
    /\ total_responses = PerWorker(Unbound)
    /\ data = PerWorker(Unbound)
    /\ upstream = PerWorker(Unbound)
    /\ getCount = PerWorker(0)
    /\ sentTo = PerWorker(Unbound)
    /\ rendered = PerWorker(Unbound)
    /\ httpStatus = PerWorker(Unbound)
    /\ fault = PerWorker("none")


\* ------------------------------------------------------ the steps of index
\* A variant in which the locals are module-level names all invocations share.
SharedFrame(w) == 1

\* The frame that holds the locals of the invocation worker w runs: every
\* call of a Python function has a frame of its own.
Frame(w) == w

\* A variant in which API_URL is read once, when the module is imported.
ReadApiUrlAtImport == InitialUrl

\* settings.API_URL, evaluated when line 8 runs.
ReadApiUrl == apiUrl

\* A variant that catches the transport error and goes on with an empty list.
RequestsGetFallback(r) ==
    [raised |-> FALSE,
     response |-> IF r.err THEN Response(200, ArrayBody(0)) ELSE r]

\* A variant that calls raise_for_status on the response.
RequestsGetRaiseForStatus(r) ==
    [raised |-> r.err \/ r.status >= 400, response |-> r]

\* requests.get: raises on a transport error (ConnectionError, Timeout, ...),
\* returns the response otherwise, whatever its status.
RequestsGet(r) == [raised |-> r.err, response |-> r]

\* A variant that catches the decode error and goes on with an empty list.
ResponseJsonOrEmpty(body) ==
    LET d == Loads(body)
    IN  [raised |-> FALSE, value |-> IF d.ok THEN d.val ELSE PyList(<<>>)]

\* response.json(): the decoded body, or JSONDecodeError.
ResponseJson(body) ==
    LET d == Loads(body)
    IN  [raised |-> ~d.ok, value |-> d.val]

\* A variant that keeps a running total across invocations.
TotalSinceStart(w) ==
    LET n == PyLen(posts[Frame(w)][1])
    IN  IF last # Unbound /\ last[1].total # Unbound /\ ~n.raised
        THEN [raised |-> FALSE, n |-> n.n + last[1].total[1]]
        ELSE n

\* len(posts) of line 10.
LenOfPosts(w) == PyLen(posts[Frame(w)][1])

\* A variant with the apostrophe of the title removed.
ViewDataPlainTitle(w) ==
    [title |-> "Landing Page Dashboard",
     total_responses |-> total_responses[Frame(w)][1]]

\* A variant that forwards the decoded posts to the template.
ViewDataWithPosts(w) ==
    [title |-> "Landing Page' Dashboard",
     total_responses |-> total_responses[Frame(w)][1],
     posts |-> posts[Frame(w)][1]]

\* The dict literal of line 11.
ViewData(w) ==
    [title |-> "Landing Page' Dashboard",
     total_responses |-> total_responses[Frame(w)][1]]

\* The arguments of the call of render in line 12.
RenderCall(w) ==
    [template |-> "dashboard/index.html", context |-> data[Frame(w)][1]]

\* The frame of w is discarded (return, or an exception leaving the function).
DropFrame(w) ==
    /\ response' = [response EXCEPT ![Frame(w)] = Unbound]
    /\ posts' = [posts EXCEPT ![Frame(w)] = Unbound]
    /\ total_responses' = [total_responses EXCEPT ![Frame(w)] = Unbound]
    /\ data' = [data EXCEPT ![Frame(w)] = Unbound]

\* An exception leaves index uncaught: the framework answers with its
\* server-error response.
Raise(w, exc) ==
    /\ pc' = [pc EXCEPT ![w] = "fault"]
    /\ fault' = [fault EXCEPT ![w] = exc]
    /\ httpStatus' = [httpStatus EXCEPT ![w] = Bound(500)]
    /\ DropFrame(w)

\* What the invocation worker w finished left behind.
Outcome(w) ==
    [url |-> sentTo[w],
     fault |-> fault[w],
     total |-> IF rendered[w] = Unbound THEN Unbound
               ELSE Bound(rendered[w][1].context.total_responses)]

\* Line 7: the framework calls index(request) on worker w.
Begin(w) ==
    /\ pc[w] \in {"idle", "done", "fault"}
    /\ calls < MaxCalls
    /\ calls' = calls + 1
    /\ last' = IF pc[w] = "idle" THEN last ELSE Bound(Outcome(w))
    /\ pc' = [pc EXCEPT ![w] = "get"]
    /\ DropFrame(w)
    /\ upstream' = [upstream EXCEPT ![w] = Unbound]
    /\ getCount' = [getCount EXCEPT ![w] = 0]
    /\ sentTo' = [sentTo EXCEPT ![w] = Unbound]
    /\ rendered' = [rendered EXCEPT ![w] = Unbound]
    /\ httpStatus' = [httpStatus EXCEPT ![w] = Unbound]
    /\ fault' = [fault EXCEPT ![w] = "none"]
    /\ UNCHANGED <<apiUrl, store>>

\* Line 8: response = requests.get(settings.API_URL); the upstream does r.
Get(w, r) ==
    /\ pc[w] = "get"
    /\ sentTo' = [sentTo EXCEPT ![w] = Bound(ReadApiUrl)]
    /\ getCount' = [getCount EXCEPT ![w] = @ + 1]
    /\ upstream' = [upstream EXCEPT ![w] = Bound(r)]
    /\ IF RequestsGet(r).raised
       THEN Raise(w, "ConnectionError")
       ELSE /\ response' = [response EXCEPT ![Frame(w)] = Bound(RequestsGet(r).response)]
            /\ pc' = [pc EXCEPT ![w] = "json"]
            /\ UNCHANGED <<posts, total_responses, data, httpStatus, fault>>
    /\ UNCHANGED <<apiUrl, store, calls, last, rendered>>

\* Line 9: posts = response.json().
Json(w) ==
    /\ pc[w] = "json"
    /\ response[Frame(w)] # Unbound
    /\ LET j == ResponseJson(response[Frame(w)][1].body)
       IN  IF j.raised
           THEN Raise(w, "JSONDecodeError")
           ELSE /\ posts' = [posts EXCEPT ![Frame(w)] = Bound(j.value)]
                /\ pc' = [pc EXCEPT ![w] = "len"]
                /\ UNCHANGED <<response, total_responses, data, httpStatus, fault>>
    /\ UNCHANGED <<apiUrl, store, calls, last, upstream, getCount, sentTo, rendered>>

\* Line 10: total_responses = len(posts).
LenStep(w) ==
    /\ pc[w] = "len"
    /\ posts[Frame(w)] # Unbound
    /\ IF LenOfPosts(w).raised
       THEN Raise(w, "TypeError")
       ELSE /\ total_responses' =
                   [total_responses EXCEPT ![Frame(w)] = Bound(LenOfPosts(w).n)]
            /\ pc' = [pc EXCEPT ![w] = "data"]
            /\ UNCHANGED <<response, posts, data, httpStatus, fault>>
    /\ UNCHANGED <<apiUrl, store, calls, last, upstream, getCount, sentTo, rendered>>

\* Line 11: data = { 'title': ..., 'total_responses': total_responses, }.
Data(w) ==
    /\ pc[w] = "data"
    /\ total_responses[Frame(w)] # Unbound
    /\ posts[Frame(w)] # Unbound
    /\ data' = [data EXCEPT ![Frame(w)] = Bound(ViewData(w))]
    /\ pc' = [pc EXCEPT ![w] = "render"]
    /\ UNCHANGED <<apiUrl, store, calls, last, response, posts, total_responses, outputs>>

\* Line 12: return render(request, "dashboard/index.html", data).
Render(w) ==
    /\ pc[w] = "render"
    /\ data[Frame(w)] # Unbound
    /\ rendered' = [rendered EXCEPT ![w] = Bound(RenderCall(w))]
    /\ httpStatus' = [httpStatus EXCEPT ![w] = Bound(200)]
    /\ pc' = [pc EXCEPT ![w] = "done"]
    /\ DropFrame(w)
    /\ UNCHANGED <<apiUrl, store, calls, last, upstream, getCount, sentTo, fault>>

\* The deployment changes the setting API_URL.
SetApiUrl(u) ==
    /\ u # apiUrl
    /\ apiUrl' = u
    /\ UNCHANGED <<store, calls, last, pc, locals, outputs>>

\* Requests handled one after another, every upstream outcome.
Next ==
    \/ \E w \in SeqWorkers : Begin(w)
    \/ \E w \in SeqWorkers, r \in AllResults : Get(w, r)
    \/ \E w \in SeqWorkers : Json(w)
    \/ \E w \in SeqWorkers : LenStep(w)
    \/ \E w \in SeqWorkers : Data(w)
    \/ \E w \in SeqWorkers : Render(w)
    \/ \E u \in Urls : SetApiUrl(u)

Spec == Init /\ [][Next]_vars

\* Invocations on every worker, their steps interleaved in any order; the
\* setting API_URL is left as deployed.
ConcNext ==
    \/ \E w \in Workers : Begin(w)
    \/ \E w \in Workers, r \in ConcResults : Get(w, r)
    \/ \E w \in Workers : Json(w)
    \/ \E w \in Workers : LenStep(w)
    \/ \E w \in Workers : Data(w)
    \/ \E w \in Workers : Render(w)

SpecConc == Init /\ [][ConcNext]_vars


\* ------------------------------------------------- vocabulary of the claims
\* What the upstream did with the GET of the invocation on worker w.
Own(w) == upstream[w][1]

\* Worker w's GET was answered by an HTTP response (of any status).
Answered(w) == upstream[w] # Unbound /\ ~Own(w).err

\* Worker w's GET was answered by a body that decodes to a JSON array.
ReturnsArray(w) ==
    /\ Answered(w)
    /\ Loads(Own(w).body).ok
    /\ Loads(Own(w).body).val.kind = "list"

\* The number of top-level elements of that array.
ArrayLength(w) == Len(Loads(Own(w).body).val.items)

\* The invocation on worker w called render.
Rendered(w) == rendered[w] # Unbound

Context(w) == rendered[w][1].context

\* The invocation on worker w never reaches render or a 200 response.
NothingRendered(w) ==
    /\ pc[w] # "done"
    /\ rendered[w] = Unbound
    /\ data[Frame(w)] = Unbound
    /\ httpStatus[w] # Bound(200)

\* ------------------------------------------------------------------ claims
\* C1: whenever the upstream body of an invocation decodes to a JSON array of
\* length N, the invocation does not fault and the context it passes to the
\* renderer has total_responses = N.
C1_CountCorrect ==
    \A w \in Workers :
        ReturnsArray(w) =>
            /\ pc[w] # "fault"
            /\ pc[w] = "render" => data[Frame(w)][1].total_responses = ArrayLength(w)
            /\ pc[w] = "done" => Rendered(w) /\ Context(w).total_responses = ArrayLength(w)

\* C1 witness: an invocation has rendered the count of an array of more than
\* one element.
C1_Witness ==
    \E w \in Workers :
        /\ pc[w] = "done"
        /\ ReturnsArray(w)
        /\ ArrayLength(w) > 1
        /\ Context(w).total_responses = ArrayLength(w)

\* C2: an invocation whose GET raised a transport error has faulted with that
\* error after its single GET: nothing is rendered, no context is built and the
\* response to the client is not a 200.
C2_TransportFaultPropagates ==
    \A w \in Workers :
        (upstream[w] # Unbound /\ Own(w).err) =>
            /\ pc[w] = "fault"
            /\ fault[w] = "ConnectionError"
            /\ getCount[w] = 1
            /\ NothingRendered(w)

\* C2 witness: an invocation has faulted on a transport error.
C2_Witness ==
    \E w \in Workers :
        /\ upstream[w] = Bound(TransportError)
        /\ pc[w] = "fault"
        /\ httpStatus[w] = Bound(500)

\* C3 as stated, by its result: an invocation whose upstream body is not valid
\* JSON ends in a fault; it calls no renderer and produces no 200 response.
C3_InvalidJsonFaults ==
    \A w \in Workers :
        (Answered(w) /\ ~ValidJson(Own(w).body)) =>
            /\ pc[w] # "done"
            /\ rendered[w] = Unbound
            /\ httpStatus[w] # Bound(200)

\* C3 amended: an invocation whose upstream body the decoder rejects faults in
\* the decode; no length is computed and nothing is rendered.
C3_RejectedBodyFaults ==
    \A w \in Workers :
        (Answered(w) /\ ~Loads(Own(w).body).ok) =>
            /\ pc[w] \in {"json", "fault"}
            /\ pc[w] = "fault" => fault[w] = "JSONDecodeError"
            /\ total_responses[Frame(w)] = Unbound
            /\ NothingRendered(w)

\* C3 witness: an invocation has faulted decoding a plain-text body.
C3_Witness ==
    \E w \in Workers :
        /\ Answered(w)
        /\ Own(w).body = BodyPlainText
        /\ pc[w] = "fault"
        /\ fault[w] = "JSONDecodeError"

\* C4 as stated, by its result: an invocation whose upstream body decodes to a
\* value that is not an array ends in a fault; it calls no renderer and
\* produces no 200 response with a count.
C4_NonArrayFaults ==
    \A w \in Workers :
        (Answered(w) /\ Loads(Own(w).body).ok /\ ~ReturnsArray(w)) =>
            /\ pc[w] # "done"
            /\ rendered[w] = Unbound
            /\ httpStatus[w] # Bound(200)

\* C4 amended: a number, a boolean or null faults in len and renders nothing;
\* an object or a string does not fault, and is rendered with the number of
\* its distinct keys or of its characters.
C4_OnlyUnsizedFaults ==
    \A w \in Workers :
        (Answered(w) /\ Loads(Own(w).body).ok) =>
            LET v == Loads(Own(w).body).val
            IN  /\ v.kind \in {"int", "float", "bool", "NoneType"} =>
                    /\ pc[w] \in {"json", "len", "fault"}
                    /\ pc[w] = "fault" => fault[w] = "TypeError"
                    /\ NothingRendered(w)
                /\ v.kind \in {"dict", "str"} =>
                    /\ pc[w] # "fault"
                    /\ pc[w] = "done" =>
                         /\ Rendered(w)
                         /\ httpStatus[w] = Bound(200)
                         /\ Context(w).total_responses =
                              IF v.kind = "dict" THEN Cardinality({v.keys[k] : k \in DOMAIN v.keys})
                              ELSE Len(v.chars)

\* C4 witness: after an invocation that faulted in len, an invocation has
\* rendered the one distinct key of an object.
C4_Witness ==
    \E w \in Workers :
        /\ last # Unbound
        /\ last[1].fault = "TypeError"
        /\ Answered(w)
        /\ Own(w).body = BodyDupKeys
        /\ pc[w] = "done"
        /\ Context(w).total_responses = 1

\* C5: an invocation starts with nothing bound and nothing rendered, and the
\* whole context of an invocation that was answered with an array is the
\* title and the length of that array, whatever earlier invocations did.
C5_Stateless ==
    \A w \in Workers :
        /\ pc[w] = "get" =>
              /\ response[Frame(w)] = Unbound
              /\ posts[Frame(w)] = Unbound
              /\ total_responses[Frame(w)] = Unbound
              /\ data[Frame(w)] = Unbound
              /\ rendered[w] = Unbound
              /\ httpStatus[w] = Unbound
        /\ (pc[w] = "done" /\ ReturnsArray(w)) =>
              Context(w) = [title |-> "Landing Page' Dashboard",
                            total_responses |-> ArrayLength(w)]

\* C5 witness: an invocation has rendered a count that differs from the count
\* the invocation before it rendered.
C5_Witness ==
    \E w \in Workers :
        /\ last # Unbound
        /\ last[1].total # Unbound
        /\ last[1].total[1] > 0
        /\ pc[w] = "done"
        /\ ReturnsArray(w)
        /\ Context(w).total_responses # last[1].total[1]

\* C6: with the steps of several invocations interleaved, in every step each
\* invocation holds the response, the decoded value and the count of its own
\* upstream answer and renders that count, and no step writes API_URL.
C6_Independent ==
    [][ /\ apiUrl' = apiUrl
        /\ \A w \in Workers :
              /\ pc'[w] \in {"json", "len", "data", "render"} =>
                    response'[Frame(w)] = upstream'[w]
              /\ pc'[w] \in {"len", "data", "render"} =>
                    posts'[Frame(w)] = Bound(Loads(upstream'[w][1].body).val)
              /\ pc'[w] \in {"data", "render"} =>
                    total_responses'[Frame(w)] =
                        Bound(PyLen(Loads(upstream'[w][1].body).val).n)
              /\ pc'[w] = "done" =>
                    rendered'[w][1].context.total_responses =
                        PyLen(Loads(upstream'[w][1].body).val).n
      ]_vars

\* C6 witness: two invocations are in flight at different lines, answered with
\* arrays of different lengths.
C6_Witness ==
    /\ pc[1] = "render"
    /\ pc[2] = "json"
    /\ ReturnsArray(1)
    /\ ReturnsArray(2)
    /\ ArrayLength(1) # ArrayLength(2)
    /\ data[Frame(1)][1].total_responses = ArrayLength(1)

\* C7: the title of every context built or passed to the renderer is the
\* literal Landing Page' Dashboard.
C7_TitleLiteral ==
    \A w \in Workers :
        /\ data[Frame(w)] # Unbound => data[Frame(w)][1].title = "Landing Page' Dashboard"
        /\ Rendered(w) => Context(w).title = "Landing Page' Dashboard"

\* C7 witness: an invocation answered with an object under status 404 has
\* rendered the title.
C7_Witness ==
    \E w \in Workers :
        /\ pc[w] = "done"
        /\ Own(w) = Response(404, BodyObject)
        /\ Context(w).title = "Landing Page' Dashboard"

\* C8: every call of the renderer names the template dashboard/index.html and
\* passes a context with exactly the keys title and total_responses, a string
\* and a number; and the decoded value stays as it was decoded.
C8_ContextShape ==
    \A w \in Workers :
        /\ Rendered(w) =>
              /\ rendered[w][1].template = "dashboard/index.html"
              /\ DOMAIN Context(w) = {"title", "total_responses"}
              /\ Context(w).total_responses \in Nat
        /\ data[Frame(w)] # Unbound =>
              DOMAIN data[Frame(w)][1] = {"title", "total_responses"}
        /\ posts[Frame(w)] # Unbound =>
              posts[Frame(w)] = Bound(Loads(Own(w).body).val)

\* C8 witness: an invocation answered with a nested array has called the
\* renderer.
C8_Witness ==
    \E w \in Workers :
        /\ pc[w] = "done"
        /\ Answered(w)
        /\ Own(w).body = BodyNested
        /\ Rendered(w)

C10_StatusIgnored ==
    \A w \in Workers :
        /\ ReturnsArray(w) =>
              /\ pc[w] # "fault"
              /\ pc[w] = "done" =>
                    /\ Context(w).total_responses = ArrayLength(w)
                    /\ httpStatus[w] = Bound(200)
        /\ pc[w] = "fault" =>
              \/ fault[w] = "ConnectionError" /\ Own(w).err
              \/ fault[w] = "JSONDecodeError" /\ Answered(w) /\ ~Loads(Own(w).body).ok
              \/ /\ fault[w] = "TypeError"
                 /\ Answered(w)
                 /\ Loads(Own(w).body).ok
                 /\ Loads(Own(w).body).val.kind \notin {"list", "dict", "str"}

\* C10 witness: an invocation answered with status 500 and an array has
\* rendered its length under a 200.
C10_Witness ==
    \E w \in Workers :
        /\ pc[w] = "done"
        /\ ReturnsArray(w)
        /\ Own(w).status = 500
        /\ ArrayLength(w) > 0
        /\ Context(w).total_responses = ArrayLength(w)
        /\ httpStatus[w] = Bound(200)

====
